---------------------------- MODULE Spec2Model ----------------------------
(***************************************************************************)
(* Model of packages/core/src/providers/orcid.ts: the ORCID provider       *)
(* factory ORCID(options), its userinfo.request override and its profile() *)
(* mapping.                                                                *)
(*                                                                         *)
(* JavaScript strings that the code inspects or concatenates (profile      *)
(* fields, access tokens, header values) are sequences of one-character    *)
(* strings, so that trim(), template literals and the truthiness of the    *)
(* empty string are computed and not assumed.  Strings the code only       *)
(* stores (endpoint URLs, ids, colours) are TLA+ strings.                  *)
(***************************************************************************)
EXTENDS Integers, Sequences, FiniteSets, TLC

(***************************************************************************)
(* Bounds of the model.                                                    *)
(***************************************************************************)
MaxStrLen == 2      \* longest generated profile string
MaxAttempts == 2    \* concurrent login attempts sharing one descriptor

(***************************************************************************)
(* State.                                                                  *)
(***************************************************************************)
VARIABLES
    options,     \* the options object of the caller
    descriptor,  \* << >> before ORCID(options) is called, then <<its result>>
    pc,          \* pc[a]: where login attempt a's userinfo.request stands
    args,        \* args[a]: << >>, then <<the { tokens, provider } passed>>
    requests,    \* requests[a]: the HTTP requests issued by attempt a's call
    response,    \* response[a]: << >>, then <<the response fetch resolved to>>
    failure,     \* failure[a]: the error attempt a's call rejected with
    result,      \* result[a]: << >>, then <<the value the call returned>>
    user         \* user[a]: << >>, then <<profile(result) of attempt a>>

vars ==
    <<options, descriptor, pc, args, requests, response, failure, result,
      user>>

attemptVars == <<pc, args, requests, response, failure, result, user>>

(***************************************************************************)
(* JavaScript values.                                                      *)
(***************************************************************************)
\* The value `undefined`: a value that is no string (its single element is
\* not a character).
Undefined == << "undefined" >>

Whitespace == {" "}
Alphabet == {"a", " "}

RECURSIVE StringsUpTo(_)
StringsUpTo(n) ==
    IF n = 0 THEN {<< >>}
    ELSE LET shorter == StringsUpTo(n - 1)
         IN  shorter \cup {Append(s, c) : s \in shorter, c \in Alphabet}

\* Literals of the examples of the specification.
Grace == <<"G", "r", "a", "c", "e">>
Hopper == <<"H", "o", "p", "p", "e", "r">>
AdaLovelace == <<"A", "d", "a", " ", "L", "o", "v", "e", "l", "a", "c", "e">>

\* The literal "Unknown" of the name template (orcid.ts:94).
Unknown == <<"U", "n", "k", "n", "o", "w", "n">>

\* The literal prefix "https://orcid.org/" of the url template (orcid.ts:97).
OrcidOrg ==
    <<"h", "t", "t", "p", "s", ":", "/", "/", "o", "r", "c", "i", "d", ".",
      "o", "r", "g", "/">>

\* The literal prefix "Bearer " of the Authorization header (orcid.ts:87).
Bearer == <<"B", "e", "a", "r", "e", "r", " ">>

\* Variant: only undefined counts as missing (`??` in place of `||`).
Truthy_Nullish(v) == v # Undefined

\* JavaScript truthiness of a string-or-undefined value: undefined and the
\* empty string are falsy.
Truthy(v) == v # Undefined /\ v # << >>

\* a || b
Or(a, b) == IF Truthy(a) THEN a ELSE b

\* Conversion of a value inside a template literal: undefined becomes the
\* nine characters "undefined".
TemplateValue(v) ==
    IF v = Undefined
    THEN <<"u", "n", "d", "e", "f", "i", "n", "e", "d">>
    ELSE v

RECURSIVE TrimStart(_)
TrimStart(s) ==
    IF s # << >> /\ Head(s) \in Whitespace THEN TrimStart(Tail(s)) ELSE s

RECURSIVE TrimEnd(_)
TrimEnd(s) ==
    IF s # << >> /\ s[Len(s)] \in Whitespace
    THEN TrimEnd(SubSeq(s, 1, Len(s) - 1))
    ELSE s

\* String.prototype.trim
Trim(s) == TrimEnd(TrimStart(s))

(***************************************************************************)
(* profile(profile), orcid.ts:91-99.                                       *)
(***************************************************************************)
\* Variant: the template without .trim().
FallbackName_Untrimmed(p) ==
    TemplateValue(Or(p.given_name, Unknown)) \o <<" ">>
        \o TemplateValue(Or(p.family_name, << >>))

\* `${profile.given_name || "Unknown"} ${profile.family_name || ""}`.trim()
FallbackName(p) ==
    Trim(TemplateValue(Or(p.given_name, Unknown)) \o <<" ">>
         \o TemplateValue(Or(p.family_name, << >>)))

\* `https://orcid.org/${profile.sub}`
OrcidUrl(p) == OrcidOrg \o TemplateValue(p.sub)

\* Variant: the url is always the constructed one.
profile_UrlBuilt(p) ==
    [ id    |-> p.sub,
      name  |-> Or(p.name, FallbackName(p)),
      email |-> p.email,
      image |-> p.picture,
      url   |-> OrcidUrl(p) ]

profile(p) ==
    [ id    |-> p.sub,
      name  |-> Or(p.name, FallbackName(p)),
      email |-> p.email,
      image |-> p.picture,
      url   |-> Or(p.url, OrcidUrl(p)) ]


(***************************************************************************)
(* ORCID(options), orcid.ts:67-103.                                        *)
(***************************************************************************)
\* The paths of the fields a caller's options may set.
OptionFields ==
    {"clientId", "clientSecret", "id", "name", "type", "authorization.url",
     "authorization.params.scope", "token", "userinfo.url", "style"}

\* The fields among them that the descriptor gives a built-in value.
DefaultFields == OptionFields \ {"clientId", "clientSecret"}

\* Variant: the caller's options spread over the built-in values
\* (`...options` in place of `options`).
ORCID_Spread(opts) ==
    LET pick(f, builtIn) == IF f \in DOMAIN opts THEN opts[f] ELSE builtIn
    IN  [ id            |-> pick("id", "orcid"),
          name          |-> pick("name", "ORCID"),
          type          |-> pick("type", "oauth"),
          authorization |->
              [ url    |-> pick("authorization.url",
                                "https://orcid.org/oauth/authorize"),
                params |-> [ scope         |-> pick("authorization.params.scope",
                                                    "openid email profile"),
                             response_type |-> "code" ] ],
          token         |-> pick("token", "https://orcid.org/oauth/token"),
          userinfo      |->
              [ url |-> pick("userinfo.url", "https://orcid.org/oauth/userinfo") ],
          style         |-> pick("style", [ bg |-> "#A6CE39", text |-> "#fff" ]),
          options       |-> opts ]

\* Variant: the token endpoint repeats the authorization endpoint.
ORCID_TokenUrl(opts) ==
    [ id            |-> "orcid",
      name          |-> "ORCID",
      type          |-> "oauth",
      authorization |->
          [ url    |-> "https://orcid.org/oauth/authorize",
            params |-> [ scope         |-> "openid email profile",
                         response_type |-> "code" ] ],
      token         |-> "https://orcid.org/oauth/authorize",
      userinfo      |-> [ url |-> "https://orcid.org/oauth/userinfo" ],
      style         |-> [ bg |-> "#A6CE39", text |-> "#fff" ],
      options       |-> opts ]

\* The factory: an object literal of the built-in values, with the caller's
\* options stored under the key `options`.
ORCID(opts) ==
    [ id            |-> "orcid",
      name          |-> "ORCID",
      type          |-> "oauth",
      authorization |->
          [ url    |-> "https://orcid.org/oauth/authorize",
            params |-> [ scope         |-> "openid email profile",
                         response_type |-> "code" ] ],
      token         |-> "https://orcid.org/oauth/token",
      userinfo      |-> [ url |-> "https://orcid.org/oauth/userinfo" ],
      style         |-> [ bg |-> "#A6CE39", text |-> "#fff" ],
      options       |-> opts ]

\* descriptor.<path> for the paths of OptionFields.
Field(d, path) ==
    CASE path = "id" -> d.id
      [] path = "name" -> d.name
      [] path = "type" -> d.type
      [] path = "authorization.url" -> d.authorization.url
      [] path = "authorization.params.scope" -> d.authorization.params.scope
      [] path = "token" -> d.token
      [] path = "userinfo.url" -> d.userinfo.url
      [] path = "style" -> d.style

(***************************************************************************)
(* userinfo.request({ tokens, provider }), orcid.ts:85-89.                 *)
(***************************************************************************)
\* Variant: the built-in URL whatever the provider passed.
RequestUrl_BuiltIn(provider) == "https://orcid.org/oauth/userinfo"

\* provider.userinfo?.url
RequestUrl(provider) == provider.userinfo.url

\* Variant: the token is kept in a variable shared by all calls, set by the
\* first call that ran.
RequestHeaders_Shared(tokens) ==
    LET called == {b \in DOMAIN args : args[b] # << >>}
        first == IF called = {} THEN tokens
                 ELSE args[CHOOSE b \in called : \A c \in called : b <= c][1].tokens
    IN  [ Authorization |-> Bearer \o TemplateValue(first.access_token) ]

\* { Authorization: `Bearer ${tokens.access_token}` }
RequestHeaders(tokens) ==
    [ Authorization |-> Bearer \o TemplateValue(tokens.access_token) ]

\* fetch(url, { headers }): no method is given, so the request is a GET.
FetchRequest(tokens, provider) ==
    [ method  |-> "GET",
      url     |-> RequestUrl(provider),
      headers |-> RequestHeaders(tokens) ]

\* res.json(): the parsed body; it does not look at the response's status.
Json(res) == res.body.value


(***************************************************************************)
(* Inputs.                                                                 *)
(***************************************************************************)
\* A caller's value for an option field.
CallerValues(path) ==
    CASE path = "clientId" -> {"client-A", "client-B"}
      [] path = "clientSecret" -> {"secret-A", "secret-B"}
      [] path = "id" -> {"my-orcid"}
      [] path = "name" -> {"My ORCID"}
      [] path = "type" -> {"oidc"}
      [] path = "authorization.url" ->
             {"https://sandbox.orcid.org/oauth/authorize"}
      [] path = "authorization.params.scope" -> {"openid"}
      [] path = "token" -> {"https://sandbox.orcid.org/oauth/token"}
      [] path = "userinfo.url" -> {"https://sandbox.orcid.org/oauth/userinfo"}
      [] path = "style" -> {[ bg |-> "#000", text |-> "#eee" ]}

\* Every options object over the option fields: each field is absent or has
\* one of the caller's values.
RECURSIVE OptionsOver(_)
OptionsOver(fields) ==
    IF fields = {} THEN {<< >>}
    ELSE LET f == CHOOSE x \in fields : TRUE
             rest == OptionsOver(fields \ {f})
         IN  rest \cup {(f :> v) @@ o : v \in CallerValues(f), o \in rest}

AllOptions == OptionsOver(OptionFields)

\* The options of the documented setup: the two credentials (orcid.ts:41-44).
Credentials == ("clientId" :> "client-A") @@ ("clientSecret" :> "secret-A")

\* The values of access_token.
AccessTokens == {<<"t", "1">>, <<"t", "2">>}

\* The provider configurations the engine passes to userinfo.request: the
\* built-in user-info URL or a caller's.
UserinfoUrls ==
    {"https://orcid.org/oauth/userinfo"} \cup CallerValues("userinfo.url")

ProviderConfigs == { [ userinfo |-> [ url |-> u ] ] : u \in UserinfoUrls }

Sub1 == <<"0", "0", "0", "0", "-", "0", "0", "0", "1">>
ExampleUrl == <<"h", "t", "t", "p", "s", ":", "/", "/", "x">>
ExampleEmail == <<"a", "@", "b">>
ExamplePicture == <<"p", ".", "p", "n", "g">>

NameValues ==
    StringsUpTo(MaxStrLen) \cup {Grace, Hopper, AdaLovelace, Undefined}

\* Every user-info object of the ORCIDProfile shape (orcid.ts:13-21); a field
\* that is absent reads as undefined.
RemoteProfiles ==
    [ sub         : {Sub1, << >>, Undefined},
      name        : NameValues,
      email       : {ExampleEmail, Undefined},
      given_name  : NameValues,
      family_name : NameValues,
      picture     : {ExamplePicture, Undefined},
      url         : {ExampleUrl, << >>, Undefined} ]

\* The object {} .
EmptyObject ==
    [ sub |-> Undefined, name |-> Undefined, email |-> Undefined,
      given_name |-> Undefined, family_name |-> Undefined,
      picture |-> Undefined, url |-> Undefined ]

\* A few user-info objects: with and without sub.
SomeProfiles ==
    { [EmptyObject EXCEPT !.sub = Sub1, !.name = AdaLovelace],
      EmptyObject }

\* A response body: JSON text of an object, or text that is no JSON.
JsonBody(p) == [ json |-> TRUE, value |-> p ]
NotJsonBody == [ json |-> FALSE, value |-> EmptyObject ]

\* The statuses of the model: a 2xx and a non-2xx one.
Statuses == {200, 401}

Attempts == 1 .. MaxAttempts


InitAttempts ==
    /\ pc = [a \in Attempts |-> "idle"]
    /\ args = [a \in Attempts |-> << >>]
    /\ requests = [a \in Attempts |-> << >>]
    /\ response = [a \in Attempts |-> << >>]
    /\ failure = [a \in Attempts |-> "none"]
    /\ result = [a \in Attempts |-> << >>]
    /\ user = [a \in Attempts |-> << >>]

(***************************************************************************)
(* Operations.                                                             *)
(***************************************************************************)
\* Variant: construction checks that the credentials are there.
Build_Validating ==
    /\ descriptor = << >>
    /\ {"clientId", "clientSecret"} \subseteq DOMAIN options
    /\ descriptor' = <<ORCID(options)>>
    /\ UNCHANGED <<options, attemptVars>>

\* The application calls ORCID(options): the object is returned; nothing is
\* validated and nothing is sent.
Build ==
    /\ descriptor = << >>
    /\ descriptor' = <<ORCID(options)>>
    /\ UNCHANGED <<options, attemptVars>>

\* The engine calls userinfo.request({ tokens, provider }) for attempt a:
\* fetch is called and the call waits for it.
Request(a, tokens, provider) ==
    /\ descriptor # << >>
    /\ pc[a] = "idle"
    /\ args' = [args EXCEPT ![a] = <<[tokens |-> tokens, provider |-> provider]>>]
    /\ requests' =
           [requests EXCEPT ![a] = Append(@, FetchRequest(tokens, provider))]
    /\ pc' = [pc EXCEPT ![a] = "fetch"]
    /\ UNCHANGED <<options, descriptor, response, failure, result, user>>

\* fetch rejects (no response arrived); nothing catches it, so the call
\* rejects with the same error.
FetchRejects(a) ==
    /\ pc[a] = "fetch"
    /\ failure' = [failure EXCEPT ![a] = "TypeError"]
    /\ pc' = [pc EXCEPT ![a] = "rejected"]
    /\ UNCHANGED <<options, descriptor, args, requests, response, result, user>>

\* fetch resolves with a response of any status whose body is the JSON text
\* of one of the objects; the then-callback calls res.json().
FetchResolves(a, statuses, objects) ==
    /\ pc[a] = "fetch"
    /\ \E st \in statuses, o \in objects :
           response' =
               [response EXCEPT ![a] = <<[status |-> st, body |-> JsonBody(o)]>>]
    /\ pc' = [pc EXCEPT ![a] = "json"]
    /\ UNCHANGED <<options, descriptor, args, requests, failure, result, user>>

\* fetch resolves with a response of any status whose body is no JSON (an
\* HTML error page, say); the then-callback calls res.json().
FetchResolvesText(a, statuses) ==
    /\ pc[a] = "fetch"
    /\ \E st \in statuses :
           response' =
               [response EXCEPT ![a] = <<[status |-> st, body |-> NotJsonBody]>>]
    /\ pc' = [pc EXCEPT ![a] = "json"]
    /\ UNCHANGED <<options, descriptor, args, requests, failure, result, user>>

\* res.json() resolves: the call returns the parsed body.
JsonResolves(a) ==
    /\ pc[a] = "json"
    /\ response[a][1].body.json
    /\ result' = [result EXCEPT ![a] = <<Json(response[a][1])>>]
    /\ pc' = [pc EXCEPT ![a] = "returned"]
    /\ UNCHANGED <<options, descriptor, args, requests, response, failure, user>>

\* res.json() rejects on a body that is no JSON; the call rejects with it.
JsonRejects(a) ==
    /\ pc[a] = "json"
    /\ ~response[a][1].body.json
    /\ failure' = [failure EXCEPT ![a] = "SyntaxError"]
    /\ pc' = [pc EXCEPT ![a] = "rejected"]
    /\ UNCHANGED <<options, descriptor, args, requests, response, result, user>>

\* The engine passes the returned user-info object to profile().
Profile(a) ==
    /\ pc[a] = "returned"
    /\ user' = [user EXCEPT ![a] = <<profile(result[a][1])>>]
    /\ pc' = [pc EXCEPT ![a] = "profiled"]
    /\ UNCHANGED <<options, descriptor, args, requests, response, failure, result>>

(***************************************************************************)
(* Spec: login attempts that share one descriptor, with every outcome of   *)
(* the user-info request.                                                  *)
(***************************************************************************)
Init ==
    /\ options = Credentials
    /\ descriptor = << >>
    /\ InitAttempts

Next ==
    \/ Build
    \/ \E a \in Attempts, t \in AccessTokens, p \in ProviderConfigs :
           Request(a, [access_token |-> t], p)
    \/ \E a \in Attempts : FetchRejects(a)
    \/ \E a \in Attempts : FetchResolves(a, Statuses, SomeProfiles)
    \/ \E a \in Attempts : FetchResolvesText(a, Statuses)
    \/ \E a \in Attempts : JsonResolves(a)
    \/ \E a \in Attempts : JsonRejects(a)
    \/ \E a \in Attempts : Profile(a)

Spec == Init /\ [][Next]_vars

(***************************************************************************)
(* SpecBuild: construction with every options object, followed by one      *)
(* login attempt.                                                          *)
(***************************************************************************)
InitBuild ==
    /\ options \in AllOptions
    /\ descriptor = << >>
    /\ InitAttempts

NextBuild ==
    \/ Build
    \/ \E t \in AccessTokens, p \in ProviderConfigs :
           Request(1, [access_token |-> t], p)
    \/ FetchRejects(1)
    \/ FetchResolves(1, {200}, SomeProfiles)
    \/ JsonResolves(1)
    \/ Profile(1)

SpecBuild == InitBuild /\ [][NextBuild]_vars

(***************************************************************************)
(* SpecProfile: one login attempt of a built descriptor whose user-info    *)
(* response carries any object of the ORCIDProfile shape.                  *)
(***************************************************************************)
InitProfile ==
    /\ options = Credentials
    /\ descriptor = <<ORCID(options)>>
    /\ InitAttempts

NextProfile ==
    \/ \E t \in AccessTokens :
           Request(1, [access_token |-> t], [userinfo |-> descriptor[1].userinfo])
    \/ FetchResolves(1, {200}, RemoteProfiles)
    \/ JsonResolves(1)
    \/ Profile(1)

SpecProfile == InitProfile /\ [][NextProfile]_vars


(***************************************************************************)
(* Properties.                                                             *)
(***************************************************************************)
Built == descriptor # << >>

\* Attempt a's call has returned a value.
Returned(a) == pc[a] \in {"returned", "profiled"}

\* The literal values of the object literal of orcid.ts:70-100, by path.
BuiltIn(path) ==
    CASE path = "id" -> "orcid"
      [] path = "name" -> "ORCID"
      [] path = "type" -> "oauth"
      [] path = "authorization.url" -> "https://orcid.org/oauth/authorize"
      [] path = "authorization.params.scope" -> "openid email profile"
      [] path = "token" -> "https://orcid.org/oauth/token"
      [] path = "userinfo.url" -> "https://orcid.org/oauth/userinfo"
      [] path = "style" -> [ bg |-> "#A6CE39", text |-> "#fff" ]

C2_Defaults ==
    (Built /\ DOMAIN options = {"clientId", "clientSecret"}) =>
        /\ descriptor[1].id = "orcid"
        /\ descriptor[1].authorization.params.scope = "openid email profile"
        /\ descriptor[1].authorization.params.response_type = "code"
        /\ descriptor[1].authorization.url = "https://orcid.org/oauth/authorize"
        /\ descriptor[1].token = "https://orcid.org/oauth/token"
        /\ descriptor[1].userinfo.url = "https://orcid.org/oauth/userinfo"

\* C2 witness: a descriptor built from the credentials "client-B" and
\* "secret-A" alone.
C2_Witness ==
    /\ Built
    /\ DOMAIN options = {"clientId", "clientSecret"}
    /\ options["clientId"] = "client-B"
    /\ options["clientSecret"] = "secret-A"

\* C8: ORCID(options) can be called with every options object, also one
\* without credentials, and returns; and as long as no userinfo.request call
\* was made, no request was issued.
C8_BuildSendsNothing ==
    /\ ~Built => ENABLED Build
    /\ (\A a \in Attempts : args[a] = << >>) =>
           \A a \in Attempts : requests[a] = << >>

\* C8 witness: a descriptor built from options without client id and client
\* secret, before any call of userinfo.request.
C8_Witness ==
    /\ Built
    /\ DOMAIN options \cap {"clientId", "clientSecret"} = {}
    /\ \A a \in Attempts : pc[a] = "idle" /\ requests[a] = << >>


\* The user-info object that attempt a's call returned and the object
\* profile() made of it.
Remote(a) == result[a][1]
User(a) == user[a][1]

Profiled(a) == pc[a] = "profiled"

\* A field that is there, whatever its value.
Present(v) == v # Undefined

\* A field that is there and is not the empty string.
NonEmpty(v) == v # Undefined /\ Len(v) > 0

Spaces(n) == [i \in 1 .. n |-> " "]

\* t is s without its leading and trailing whitespace.
IsTrimOf(t, s) ==
    /\ t = << >> \/ (t[1] # " " /\ t[Len(t)] # " ")
    /\ \E i \in 0 .. Len(s), j \in 0 .. Len(s) :
           s = Spaces(i) \o t \o Spaces(j)

GraceHopper == Grace \o <<" ">> \o Hopper

\* C3 as stated: the name is full_name when full_name is present; otherwise
\* (given_name if present, else "Unknown") + " " + (family_name if present,
\* else "") without leading and trailing whitespace.
C3_NameWhenPresent ==
    \A a \in Attempts : Profiled(a) =>
        LET p == Remote(a)
            given == IF Present(p.given_name) THEN p.given_name ELSE Unknown
            family == IF Present(p.family_name) THEN p.family_name ELSE << >>
        IN  IF Present(p.name)
            THEN User(a).name = p.name
            ELSE IsTrimOf(User(a).name, given \o <<" ">> \o family)

\* C3 amended: the name is full_name when full_name is present and not the
\* empty string; otherwise (given_name if present and not empty, else
\* "Unknown") + " " + (family_name if present and not empty, else "") without
\* leading and trailing whitespace.  Given "Grace" and family "Hopper" give
\* "Grace Hopper"; no name fields at all give "Unknown".
C3_NameWhenNonEmpty ==
    \A a \in Attempts : Profiled(a) =>
        LET p == Remote(a)
            given == IF NonEmpty(p.given_name) THEN p.given_name ELSE Unknown
            family == IF NonEmpty(p.family_name) THEN p.family_name ELSE << >>
        IN  /\ IF NonEmpty(p.name)
               THEN User(a).name = p.name
               ELSE IsTrimOf(User(a).name, given \o <<" ">> \o family)
            /\ (~Present(p.name) /\ p.given_name = Grace /\ p.family_name = Hopper)
                   => User(a).name = GraceHopper
            /\ (~Present(p.name) /\ ~Present(p.given_name)
                    /\ ~Present(p.family_name))
                   => User(a).name = Unknown

\* C3 witness: profile() has mapped an object without full_name whose given
\* name ends in whitespace and whose family name is absent, so that the
\* trimming acts.
C3_Witness ==
    /\ Profiled(1)
    /\ ~Present(Remote(1).name)
    /\ Remote(1).given_name = <<"a", " ">>
    /\ ~Present(Remote(1).family_name)
    /\ User(1).name = <<"a">>

\* C4 as stated: id is sub, email and image are the profile's email and
\* picture unchanged, and url is the profile's url when that is present,
\* otherwise "https://orcid.org/" followed by sub.
C4_UrlWhenPresent ==
    \A a \in Attempts : (Profiled(a) /\ Present(Remote(a).sub)) =>
        LET p == Remote(a)
        IN  /\ User(a).id = p.sub
            /\ User(a).email = p.email
            /\ User(a).image = p.picture
            /\ User(a).url = IF Present(p.url) THEN p.url ELSE OrcidOrg \o p.sub

\* C4 amended: id is sub, email and image are the profile's email and picture
\* unchanged, and url is the profile's url when that is present and not the
\* empty string, otherwise "https://orcid.org/" followed by sub.
C4_UrlWhenNonEmpty ==
    \A a \in Attempts : (Profiled(a) /\ Present(Remote(a).sub)) =>
        LET p == Remote(a)
        IN  /\ User(a).id = p.sub
            /\ User(a).email = p.email
            /\ User(a).image = p.picture
            /\ User(a).url = IF NonEmpty(p.url) THEN p.url ELSE OrcidOrg \o p.sub

\* C4 witness: profile() has mapped an object with a sub and an explicit url.
C4_Witness ==
    /\ Profiled(1)
    /\ Remote(1).sub = Sub1
    /\ Remote(1).url = ExampleUrl
    /\ User(1).url = ExampleUrl
    /\ Present(Remote(1).email)
    /\ Present(Remote(1).picture)

\* C10: an empty-string full_name, given_name or url gives what the absent
\* field gives: the name comes from the given/family fallback ("Grace Hopper"
\* for "Grace" and "Hopper", "Unknown" without other name fields), an empty
\* given_name is replaced by "Unknown", and an empty url by
\* "https://orcid.org/" followed by sub.
C10_EmptyIsAbsent ==
    \A a \in Attempts : Profiled(a) =>
        LET p == Remote(a)
            u == User(a)
        IN  /\ p.name = << >> =>
                   /\ u.name = profile([p EXCEPT !.name = Undefined]).name
                   /\ (p.given_name = Grace /\ p.family_name = Hopper)
                          => u.name = GraceHopper
                   /\ (~Present(p.given_name) /\ ~Present(p.family_name))
                          => u.name = Unknown
            /\ (p.given_name = << >> /\ ~NonEmpty(p.name)) =>
                   /\ u.name = profile([p EXCEPT !.given_name = Undefined]).name
                   /\ ~NonEmpty(p.family_name) => u.name = Unknown
                   /\ p.family_name = Hopper
                          => u.name = Unknown \o <<" ">> \o Hopper
            /\ (p.url = << >> /\ Present(p.sub)) => u.url = OrcidOrg \o p.sub

\* C10 witness: profile() has mapped an object whose full_name, given_name
\* and url are all the empty string.
C10_Witness ==
    /\ Profiled(1)
    /\ Remote(1).name = << >>
    /\ Remote(1).given_name = << >>
    /\ Remote(1).family_name = Hopper
    /\ Remote(1).url = << >>
    /\ Remote(1).sub = Sub1


\* The { tokens, provider } that attempt a's call was given.
Args(a) == args[a][1]

Called(a) == args[a] # << >>

\* C5: every call of userinfo.request has issued exactly one request (and
\* none is issued without a call): a GET to the user-info URL of the provider
\* passed to that call, with the header Authorization: Bearer followed by the
\* access token passed to that call; and a call that returned has returned
\* the object parsed from the body of its response.
C5_OneGetWithBearer ==
    \A a \in Attempts :
        /\ ~Called(a) => requests[a] = << >>
        /\ Called(a) =>
               /\ Len(requests[a]) = 1
               /\ requests[a][1].method = "GET"
               /\ requests[a][1].url = Args(a).provider.userinfo.url
               /\ requests[a][1].headers
                      = [ Authorization |->
                              <<"B", "e", "a", "r", "e", "r", " ">>
                                  \o Args(a).tokens.access_token ]
        /\ Returned(a) =>
               /\ response[a][1].body.json
               /\ result[a] = <<response[a][1].body.value>>

\* C5 witness: a call that was given the token "t2" and a provider with the
\* sandbox user-info URL has returned the object of a 200 response.
C5_Witness ==
    /\ pc[1] = "returned"
    /\ Args(1).tokens.access_token = <<"t", "2">>
    /\ Args(1).provider.userinfo.url = "https://sandbox.orcid.org/oauth/userinfo"
    /\ response[1][1].status = 200
    /\ Present(Remote(1).sub)

\* The user-info request of attempt a failed: no response arrived, or the
\* response's body is no JSON, or its status is not 2xx.
RequestFailed(a) ==
    \/ failure[a] = "TypeError"
    \/ /\ response[a] # << >>
       /\ \/ ~response[a][1].body.json
          \/ response[a][1].status \notin 200 .. 299

\* The call of attempt a is over.
Settled(a) == pc[a] \in {"returned", "rejected", "profiled"}

\* C6 as stated: when the user-info request fails (network error, body that
\* is no JSON, status that is not 2xx), the call ends rejected, returns no
\* value, and has issued one request only.
C6_FailuresReject ==
    \A a \in Attempts : (RequestFailed(a) /\ Settled(a)) =>
        /\ pc[a] = "rejected"
        /\ result[a] = << >>
        /\ Len(requests[a]) = 1

\* C7 as stated: when the body of the user-info response is JSON without
\* sub, neither userinfo.request returns a value nor profile() makes a user
\* of it.
C7_MissingSubRejects ==
    \A a \in Attempts :
        (/\ response[a] # << >>
         /\ response[a][1].body.json
         /\ ~Present(response[a][1].body.value.sub)) =>
            /\ ~Returned(a)
            /\ user[a] = << >>

\* C9: the descriptor, once built, is never changed by any step; the request
\* of each attempt carries the token passed to that attempt's call and never
\* a different token passed to another attempt; each call returns the object
\* of its own response and each user is made of its own attempt's object.
C9_Isolation ==
    /\ [][Built => descriptor' = descriptor]_vars
    /\ [](\A a \in Attempts :
            /\ requests[a] # << >> =>
                   /\ requests[a][1].headers.Authorization
                          = Bearer \o Args(a).tokens.access_token
                   /\ \A b \in Attempts :
                          (Called(b) /\ Args(b).tokens # Args(a).tokens) =>
                              requests[a][1].headers.Authorization
                                  # Bearer \o Args(b).tokens.access_token
            /\ result[a] # << >> => Remote(a) = response[a][1].body.value
            /\ user[a] # << >> =>
                   /\ User(a).id = Remote(a).sub
                   /\ User(a).id = response[a][1].body.value.sub)

\* C9 witness: two attempts with different tokens and different response
\* objects have both been mapped by profile().
C9_Witness ==
    /\ Profiled(1) /\ Profiled(2)
    /\ Args(1).tokens.access_token = <<"t", "2">>
    /\ Args(2).tokens.access_token = <<"t", "1">>
    /\ Remote(1).sub = Sub1
    /\ ~Present(Remote(2).sub)

=============================================================================
